---- MODULE Spec2Model ----
(***************************************************************************)
(* A model of the WireGuard Prometheus exporter: interface discovery and   *)
(* name validation (wireguard/interfaces.go), the dump parser and the      *)
(* config-file display-name parser (wireguard/parser.go and the            *)
(* restricted-header parser variant), and the collector's reset / write /  *)
(* emit cycle over the package-level gauge vectors                         *)
(* (wireguard/collector.go).                                               *)
(*                                                                         *)
(* Go strings are sequences of Unicode code points: "wg0" is               *)
(* <<119, 103, 48>>.  Label NAMES and program-counter values are TLA+      *)
(* strings; label VALUES and all parsed text are code-point sequences.     *)
(***************************************************************************)
EXTENDS Integers, Sequences, FiniteSets, TLC

VARIABLES
    cfg,      \* the resolved config.Config the collector was built with
    vecs,     \* the package-level GaugeVecs: vector name -> set of series
    scr,      \* one record per scrape goroutine running Collector.Collect
    cycle,    \* number of Collect cycles started so far
    alive,    \* FALSE once a panic in Collect has taken the process down
    now,      \* the wall clock, in seconds since the epoch
    arg,      \* input of the pure function under check
    ret       \* results of the functions applied to arg: function name -> result

vars == <<cfg, vecs, scr, cycle, alive, now, arg, ret>>

-----------------------------------------------------------------------------
(* Bounds of the model.                                                    *)

\* Longest interface-name candidate tried against isValidInterfaceName.
MaxNameLen == 17

\* Most peer lines in a dump given to the parsers.
MaxPeerLines == 3

\* Most lines in a config file given to ParseWireGuardConfigFile.
MaxConfLines == 5

\* Number of Collect cycles a behaviour starts.
MaxCycles == 3

\* Number of seconds the clock advances in a behaviour.
MaxTicks == 1

-----------------------------------------------------------------------------
(* Go standard-library string functions, over code-point sequences.        *)

\* unicode.IsSpace for the Latin-1 range: \t \n \v \f \r space, NEL, NBSP.
IsSpace(c) == c \in {9, 10, 11, 12, 13, 32, 133, 160}

\* Number of bytes of the UTF-8 encoding of code point c.
Utf8Width(c) == IF c < 128 THEN 1 ELSE IF c < 2048 THEN 2 ELSE IF c < 65536 THEN 3 ELSE 4

\* len(s) of a Go string: its length in bytes.
RECURSIVE ByteLen(_)
ByteLen(s) == IF s = <<>> THEN 0 ELSE Utf8Width(Head(s)) + ByteLen(Tail(s))

\* The k-th smallest element of a set of integers.
KthMin(S, k) == CHOOSE x \in S : Cardinality({y \in S : y <= x}) = k

\* strings.TrimSpace: s without its leading and trailing white space.
TrimSpace(s) ==
    LET keep == {i \in 1..Len(s) : ~IsSpace(s[i])}
    IN  IF keep = {} THEN <<>>
        ELSE SubSeq(s, KthMin(keep, 1), KthMin(keep, Cardinality(keep)))

\* strings.Split(s, sep) for a one-character separator: the pieces between
\* the separators, always at least one; the empty string gives one empty
\* piece.
Split(s, sep) ==
    LET seps == {i \in 1..Len(s) : s[i] = sep}
        n    == Cardinality(seps)
    IN  [k \in 1..(n + 1) |->
            SubSeq(s, IF k = 1 THEN 1 ELSE KthMin(seps, k - 1) + 1,
                      IF k = n + 1 THEN Len(s) ELSE KthMin(seps, k) - 1)]

\* strings.Fields: the maximal runs of non-space characters.
Fields(s) ==
    LET starts == {i \in 1..Len(s) : ~IsSpace(s[i]) /\ (i = 1 \/ IsSpace(s[i - 1]))}
        ends   == {i \in 1..Len(s) : ~IsSpace(s[i]) /\ (i = Len(s) \/ IsSpace(s[i + 1]))}
    IN  [k \in 1..Cardinality(starts) |-> SubSeq(s, KthMin(starts, k), KthMin(ends, k))]

-----------------------------------------------------------------------------
(* wireguard/interfaces.go: isValidInterfaceName                           *)

\* The character test of the loop body, as the code writes it: three
\* inclusive rune ranges and two single runes.
ValidRune(r) ==
    \/ (r >= 97 /\ r <= 122)      \* 'a' .. 'z'
    \/ (r >= 65 /\ r <= 90)       \* 'A' .. 'Z'
    \/ (r >= 48 /\ r <= 57)       \* '0' .. '9'
    \/ r = 45                     \* '-'
    \/ r = 95                     \* '_'

\* A length check that is off by one: 16 bytes pass.
MutValidLen(name) ==
    IF ByteLen(name) = 0 \/ ByteLen(name) > 16 THEN FALSE
    ELSE \A i \in 1..Len(name) : ValidRune(name[i])

isValidInterfaceName(name) ==
    IF ByteLen(name) = 0 \/ ByteLen(name) > 15 THEN FALSE
    ELSE \A i \in 1..Len(name) : ValidRune(name[i])

-----------------------------------------------------------------------------
(* Go strconv, for decimal strings of at most nine digits (larger values   *)
(* do not fit the model checker's integers; no input of the model has      *)
(* more).                                                                  *)

IsDigits(s) == s # <<>> /\ \A i \in 1..Len(s) : s[i] >= 48 /\ s[i] <= 57

RECURSIVE DigitsValue(_, _)
DigitsValue(s, acc) ==
    IF s = <<>> THEN acc ELSE DigitsValue(Tail(s), acc * 10 + (Head(s) - 48))

\* strconv.Atoi and strconv.ParseInt(s, 10, 64): an optional sign, then
\* one or more digits; anything else is an error.
Atoi(s) ==
    IF s # <<>> /\ Head(s) \in {43, 45}
    THEN IF IsDigits(Tail(s))
         THEN [ok |-> TRUE,
               val |-> IF Head(s) = 45 THEN 0 - DigitsValue(Tail(s), 0)
                       ELSE DigitsValue(Tail(s), 0)]
         ELSE [ok |-> FALSE, val |-> 0]
    ELSE IF IsDigits(s) THEN [ok |-> TRUE, val |-> DigitsValue(s, 0)]
         ELSE [ok |-> FALSE, val |-> 0]

ParseInt(s) == Atoi(s)

\* strconv.ParseUint(s, 10, 64): digits only, a sign is an error.
ParseUint(s) ==
    IF IsDigits(s) THEN [ok |-> TRUE, val |-> DigitsValue(s, 0)]
    ELSE [ok |-> FALSE, val |-> 0]

-----------------------------------------------------------------------------
(* wireguard/types.go                                                      *)

\* time.Time{}: the zero time, for which IsZero() holds.
ZeroTime == [isZero |-> TRUE, unix |-> 0]

\* time.Unix(sec, 0): a real instant, sec seconds after the epoch.
TimeUnix(sec) == [isZero |-> FALSE, unix |-> sec]

\* The literal "(none)" of the dump format.
NoneLit == <<40, 110, 111, 110, 101, 41>>

\* The nil *Interface returned next to an error.
NilInterface == [Name |-> <<>>, PublicKey |-> <<>>, ListeningPort |-> 0, Peers |-> <<>>]

-----------------------------------------------------------------------------
(* wireguard/parser.go: ParseInterfaceData, privileged dump format:        *)
(*   <private key> <public key> <listening port> <fwmark>                  *)
(*   <public key> <preshared key> <endpoint> <allowed ips> <handshake>     *)
(*   <rx bytes> <tx bytes> <keepalive>                                     *)
(* The subprocess answer is run = [ok, out]: ok is FALSE when cmd.Output   *)
(* returned an error (launch failure, non-zero exit, timeout).             *)

\* The loop `for _, ip := range strings.Split(field, ",")`.
RECURSIVE TrimEach(_)
TrimEach(parts) ==
    IF parts = <<>> THEN <<>> ELSE <<TrimSpace(Head(parts))>> \o TrimEach(Tail(parts))

ParseAllowedIPs(field) == TrimEach(Split(field, 44))

ParseHandshake(field) ==
    IF field # <<48>> /\ ParseInt(field).ok /\ ParseInt(field).val > 0
    THEN TimeUnix(ParseInt(field).val)
    ELSE ZeroTime

ParseBytes(field) == IF ParseUint(field).ok THEN ParseUint(field).val ELSE 0

ParsePeerLine(peerParts) ==
    [PublicKey       |-> peerParts[1],
     DisplayName     |-> <<>>,
     Endpoint        |-> IF peerParts[3] # NoneLit THEN peerParts[3] ELSE <<>>,
     AllowedIPs      |-> ParseAllowedIPs(peerParts[4]),
     LatestHandshake |-> ParseHandshake(peerParts[5]),
     BytesReceived   |-> ParseBytes(peerParts[6]),
     BytesSent       |-> ParseBytes(peerParts[7])]

\* A peer loop that stops at the first line with too few fields.
MutParsePeerLinesAbort(dumpLines) ==
    LET short == {i \in 1..Len(dumpLines) : Len(Fields(dumpLines[i])) < 7}
        stop  == IF short = {} THEN Len(dumpLines) + 1
                 ELSE CHOOSE i \in short : \A j \in short : i <= j
    IN  [i \in 1..(stop - 1) |-> ParsePeerLine(Fields(dumpLines[i]))]

RECURSIVE ParsePeerLines(_)
ParsePeerLines(dumpLines) ==
    IF dumpLines = <<>> THEN <<>>
    ELSE IF Len(Fields(Head(dumpLines))) < 7 THEN ParsePeerLines(Tail(dumpLines))
    ELSE <<ParsePeerLine(Fields(Head(dumpLines)))>> \o ParsePeerLines(Tail(dumpLines))

ParseInterfaceData(interfaceName, run) ==
    LET dumpLines      == Split(TrimSpace(run.out), 10)
        interfaceParts == Fields(dumpLines[1])
    IN  IF ~isValidInterfaceName(interfaceName) \/ ~run.ok \/ Len(interfaceParts) < 4
        THEN [err |-> TRUE, iface |-> NilInterface]
        ELSE [err |-> FALSE,
              iface |-> [Name          |-> interfaceName,
                         PublicKey     |-> interfaceParts[2],
                         ListeningPort |-> IF Atoi(interfaceParts[3]).ok
                                           THEN Atoi(interfaceParts[3]).val ELSE 0,
                         Peers         |-> ParsePeerLines(Tail(dumpLines))]]

-----------------------------------------------------------------------------
(* The restricted-header variant of ParseInterfaceData:                    *)
(*   <public key> <listening port> <fwmark>                                *)
(*   <public key> <endpoint> <allowed ips> <handshake> <rx> <tx> <keepalive>*)
(* Every peer field after the public key is optional.                      *)

ParsePeerLineRestricted(peerParts) ==
    [PublicKey       |-> peerParts[1],
     DisplayName     |-> <<>>,
     Endpoint        |-> IF Len(peerParts) >= 2 /\ peerParts[2] # NoneLit
                         THEN peerParts[2] ELSE <<>>,
     AllowedIPs      |-> IF Len(peerParts) >= 3 THEN ParseAllowedIPs(peerParts[3]) ELSE <<>>,
     LatestHandshake |-> IF Len(peerParts) >= 4 THEN ParseHandshake(peerParts[4]) ELSE ZeroTime,
     BytesReceived   |-> IF Len(peerParts) >= 5 THEN ParseBytes(peerParts[5]) ELSE 0,
     BytesSent       |-> IF Len(peerParts) >= 6 THEN ParseBytes(peerParts[6]) ELSE 0]

RECURSIVE ParsePeerLinesRestricted(_)
ParsePeerLinesRestricted(dumpLines) ==
    IF dumpLines = <<>> THEN <<>>
    ELSE IF Len(Fields(Head(dumpLines))) < 1 THEN ParsePeerLinesRestricted(Tail(dumpLines))
    ELSE <<ParsePeerLineRestricted(Fields(Head(dumpLines)))>>
             \o ParsePeerLinesRestricted(Tail(dumpLines))

\* A restricted parser that swaps the received and sent byte counters.
MutRestrictedSwapBytes(interfaceName, run) ==
    LET dumpLines      == Split(TrimSpace(run.out), 10)
        interfaceParts == Fields(dumpLines[1])
        swap(p)        == [p EXCEPT !.BytesReceived = p.BytesSent, !.BytesSent = p.BytesReceived]
        peers          == ParsePeerLinesRestricted(Tail(dumpLines))
    IN  IF ~isValidInterfaceName(interfaceName) \/ ~run.ok \/ Len(interfaceParts) < 2
        THEN [err |-> TRUE, iface |-> NilInterface]
        ELSE [err |-> FALSE,
              iface |-> [Name          |-> interfaceName,
                         PublicKey     |-> interfaceParts[1],
                         ListeningPort |-> IF Atoi(interfaceParts[2]).ok
                                           THEN Atoi(interfaceParts[2]).val ELSE 0,
                         Peers         |-> [i \in 1..Len(peers) |-> swap(peers[i])]]]

ParseInterfaceDataRestricted(interfaceName, run) ==
    LET dumpLines      == Split(TrimSpace(run.out), 10)
        interfaceParts == Fields(dumpLines[1])
    IN  IF ~isValidInterfaceName(interfaceName) \/ ~run.ok \/ Len(interfaceParts) < 2
        THEN [err |-> TRUE, iface |-> NilInterface]
        ELSE [err |-> FALSE,
              iface |-> [Name          |-> interfaceName,
                         PublicKey     |-> interfaceParts[1],
                         ListeningPort |-> IF Atoi(interfaceParts[2]).ok
                                           THEN Atoi(interfaceParts[2]).val ELSE 0,
                         Peers         |-> ParsePeerLinesRestricted(Tail(dumpLines))]]

-----------------------------------------------------------------------------
(* wireguard/parser.go: ParseWireGuardConfigFile                           *)

\* \s of Go's regexp (RE2): tab, newline, form feed, carriage return, space.
ReSpace(c) == c \in {9, 10, 12, 13, 32}

\* The first position from i on that holds no \s (Len(s) + 1 if none).
SkipSpace(s, i) ==
    CHOOSE j \in i..(Len(s) + 1) :
        /\ j = Len(s) + 1 \/ ~ReSpace(s[j])
        /\ \A k \in i..(j - 1) : ReSpace(s[k])

\* ASCII case folding of the (?i) flag.
Lower(c) == IF c >= 65 /\ c <= 90 THEN c + 32 ELSE c

\* The lower-case literal lit matches s at position i, ignoring case.
MatchesAt(s, i, lit) ==
    /\ i + Len(lit) - 1 <= Len(s)
    /\ \A k \in 1..Len(lit) : Lower(s[i + k - 1]) = lit[k]

\* strings.HasPrefix
HasPrefix(s, prefix) ==
    Len(s) >= Len(prefix) /\ SubSeq(s, 1, Len(prefix)) = prefix

\* ^\s*<key>\s*=\s*(.+)$ from position i of the line, for a lower-case
\* key: the captured group, trimmed, or no match.
MatchKeyValue(line, i, key) ==
    LET a == SkipSpace(line, i)
        b == SkipSpace(line, a + Len(key))
        c == SkipSpace(line, b + 1)
    IN  IF MatchesAt(line, a, key) /\ b <= Len(line) /\ line[b] = 61 /\ c <= Len(line)
        THEN [ok |-> TRUE, val |-> TrimSpace(SubSeq(line, c, Len(line)))]
        ELSE [ok |-> FALSE, val |-> <<>>]

NoMatch == [ok |-> FALSE, val |-> <<>>]

\* displayNameRegex: (?i)^\s*#\s*display[-_]name\s*=\s*(.+)$
MatchDisplayName(line) ==
    LET h    == SkipSpace(line, 1)
        dash == MatchKeyValue(line, h + 1,
                    <<100, 105, 115, 112, 108, 97, 121, 45, 110, 97, 109, 101>>)
        undr == MatchKeyValue(line, h + 1,
                    <<100, 105, 115, 112, 108, 97, 121, 95, 110, 97, 109, 101>>)
    IN  IF h > Len(line) \/ line[h] # 35 THEN NoMatch
        ELSE IF dash.ok THEN dash ELSE undr

\* publicKeyRegex: (?i)^\s*PublicKey\s*=\s*(.+)$
MatchPublicKey(line) ==
    MatchKeyValue(line, 1, <<112, 117, 98, 108, 105, 99, 107, 101, 121>>)

Str_PeerSection == <<91, 80, 101, 101, 114, 93>>          \* "[Peer]"

\* displayNames[currentPublicKey] = currentDisplayName, when both are set.
Commit(st) ==
    IF st.currentPublicKey # <<>> /\ st.currentDisplayName # <<>>
    THEN [st EXCEPT !.displayNames =
                (st.currentPublicKey :> st.currentDisplayName) @@ @]
    ELSE st

\* A display-name branch that only takes a name once the key is known.
MutOnDisplayNameNeedsKey(st, m) ==
    IF m.ok /\ m.val # <<>> /\ st.currentPublicKey # <<>>
    THEN Commit([st EXCEPT !.currentDisplayName = m.val])
    ELSE st

\* The display-name branch of the loop body, m the regex match.
OnDisplayName(st, m) ==
    IF m.ok /\ m.val # <<>>
    THEN Commit([st EXCEPT !.currentDisplayName = m.val])
    ELSE st

\* The PublicKey branch of the loop body, m the regex match.
OnPublicKey(st, m) ==
    IF m.ok /\ m.val # <<>>
    THEN Commit([st EXCEPT !.currentPublicKey = m.val])
    ELSE st

\* One iteration of `for _, line := range lines`.
ScanLine(st, line) ==
    LET trimmedLine == TrimSpace(line)
    IN  IF HasPrefix(trimmedLine, Str_PeerSection)
        THEN [(IF st.inPeerSection THEN Commit(st) ELSE st) EXCEPT
                 !.inPeerSection = TRUE,
                 !.currentPublicKey = <<>>,
                 !.currentDisplayName = <<>>]
        ELSE IF HasPrefix(trimmedLine, <<91>>) /\ trimmedLine # Str_PeerSection
        THEN [Commit(st) EXCEPT
                 !.inPeerSection = FALSE,
                 !.currentPublicKey = <<>>,
                 !.currentDisplayName = <<>>]
        ELSE IF st.inPeerSection
        THEN OnPublicKey(OnDisplayName(st, MatchDisplayName(trimmedLine)),
                         MatchPublicKey(trimmedLine))
        ELSE st

RECURSIVE ScanLines(_, _)
ScanLines(st, lines) ==
    IF lines = <<>> THEN st ELSE ScanLines(ScanLine(st, Head(lines)), Tail(lines))

\* The mapping public key -> display name read from the file content data
\* (the file was readable).
ParseWireGuardConfigFile(data) ==
    LET st == ScanLines([inPeerSection |-> FALSE, currentPublicKey |-> <<>>,
                         currentDisplayName |-> <<>>, displayNames |-> <<>>],
                        Split(data, 10))
    IN  (IF st.inPeerSection THEN Commit(st) ELSE st).displayNames

-----------------------------------------------------------------------------
(* Text used by the inputs of the model.                                   *)

Str_wg0     == <<119, 103, 48>>                           \* "wg0"
Str_wg1     == <<119, 103, 49>>                           \* "wg1"
Str_PUBKEY  == <<80, 85, 66, 75, 69, 89>>                 \* "PUBKEY"
Str_PRIVKEY == <<80, 82, 73, 86, 75, 69, 89>>             \* "PRIVKEY"
Str_PEER1   == <<80, 69, 69, 82, 49>>                     \* "PEER1"
Str_PEER2   == <<80, 69, 69, 82, 50>>                     \* "PEER2"
Str_IP1     == <<49, 48, 46, 48, 46, 48, 46, 49, 47, 51, 50>>   \* "10.0.0.1/32"
Str_IP1b    == <<49, 48, 46, 48, 46, 49, 46, 48, 47, 50, 52>>   \* "10.0.1.0/24"
Str_IP2     == <<49, 48, 46, 48, 46, 48, 46, 50, 47, 51, 50>>   \* "10.0.0.2/32"
Str_EP1     == <<49, 46, 50, 46, 51, 46, 52, 58, 53>>     \* "1.2.3.4:5"

\* "PUBKEY 51820": the two-field header of the parsing fixture.
Hdr_Fixture == <<80, 85, 66, 75, 69, 89, 32, 53, 49, 56, 50, 48>>
\* "PUBKEY\t51820\toff": the restricted header.
Hdr_Restricted == <<80, 85, 66, 75, 69, 89, 9, 53, 49, 56, 50, 48, 9, 111, 102, 102>>
\* "PRIVKEY\tPUBKEY\t51820\toff": the privileged header, as wg prints it.
Hdr_Privileged ==
    <<80, 82, 73, 86, 75, 69, 89, 9, 80, 85, 66, 75, 69, 89, 9, 53, 49, 56, 50, 48, 9,
      111, 102, 102>>
\* "PRIVKEY\tPUBKEY\t0\toff": a privileged header without a listening port.
Hdr_PrivilegedNoPort ==
    <<80, 82, 73, 86, 75, 69, 89, 9, 80, 85, 66, 75, 69, 89, 9, 48, 9, 111, 102, 102>>

\* "PEER2\t(none)\t10.0.0.2/32\t0\t100\t200": the six-field fixture peer line.
Line_Fixture ==
    <<80, 69, 69, 82, 50, 9, 40, 110, 111, 110, 101, 41, 9, 49, 48, 46, 48, 46, 48, 46,
      50, 47, 51, 50, 9, 48, 9, 49, 48, 48, 9, 50, 48, 48>>
\* "PEER2\t(none)\t(none)\t10.0.0.2/32\t0\t100\t200\toff": the same peer in
\* the privileged eight-field format.
Line_Peer2 ==
    <<80, 69, 69, 82, 50, 9, 40, 110, 111, 110, 101, 41, 9, 40, 110, 111, 110, 101, 41,
      9, 49, 48, 46, 48, 46, 48, 46, 50, 47, 51, 50, 9, 48, 9, 49, 48, 48, 9, 50, 48,
      48, 9, 111, 102, 102>>
\* "PEER1\tPSK\t1.2.3.4:5\t10.0.0.1/32,10.0.1.0/24\t1700\t5\tx\t25": a
\* connected peer, privileged format, with an unparsable sent counter.
Line_Peer1 ==
    <<80, 69, 69, 82, 49, 9, 80, 83, 75, 9, 49, 46, 50, 46, 51, 46, 52, 58, 53, 9, 49,
      48, 46, 48, 46, 48, 46, 49, 47, 51, 50, 44, 49, 48, 46, 48, 46, 49, 46, 48, 47,
      50, 52, 9, 49, 55, 48, 48, 9, 53, 9, 120, 9, 50, 53>>
\* "PEER1\t(none)\t(none)\t10.0.0.1/32,,10.0.1.0/24\t0\t0\t0\toff": a peer
\* whose allowed-IPs field has an empty entry.
Line_EmptyIP ==
    <<80, 69, 69, 82, 49, 9, 40, 110, 111, 110, 101, 41, 9, 40, 110, 111, 110, 101,
      41, 9, 49, 48, 46, 48, 46, 48, 46, 49, 47, 51, 50, 44, 44, 49, 48, 46, 48, 46,
      49, 46, 48, 47, 50, 52, 9, 48, 9, 48, 9, 48, 9, 111, 102, 102>>
\* "PEER3\t(none)": a peer line cut short.
Line_Short == <<80, 69, 69, 82, 51, 9, 40, 110, 111, 110, 101, 41>>

\* The lines of a text joined by "\n", with the trailing newline wg prints.
RECURSIVE JoinLines(_)
JoinLines(lines) ==
    IF lines = <<>> THEN <<>> ELSE Head(lines) \o <<10>> \o JoinLines(Tail(lines))

-----------------------------------------------------------------------------
(* wireguard/interfaces.go: DiscoverInterfaces                             *)

\* The loop over the lines of `wg show interfaces`: trim, skip blank lines,
\* skip invalid names, keep the names that are not in the deny-list.
RECURSIVE FilterInterfaces(_, _)
FilterInterfaces(lines, denyMap) ==
    IF lines = <<>> THEN <<>>
    ELSE LET line == TrimSpace(Head(lines))
             rest == FilterInterfaces(Tail(lines), denyMap)
         IN  IF line = <<>> THEN rest
             ELSE IF ~isValidInterfaceName(line) THEN rest
             ELSE IF line \notin denyMap THEN <<line>> \o rest
             ELSE rest

\* A discovery that forgets the deny-list.
MutDiscoverNoDenylist(output, denylist) ==
    FilterInterfaces(Split(TrimSpace(output), 10), {})

\* The interfaces returned when the subprocess succeeded with `output`.
DiscoverInterfaces(output, denylist) ==
    FilterInterfaces(Split(TrimSpace(output), 10),
                     {denylist[i] : i \in 1..Len(denylist)})

-----------------------------------------------------------------------------
(* The metrics package: the eight package-level GaugeVecs and the label    *)
(* names each was declared with.                                           *)

VecNames ==
    {"PeersTotal", "PeerLatestHandshakeSeconds", "PeerHandshakeAgeSeconds",
     "PeerBytesSent", "PeerBytesReceived", "InterfaceListeningPort",
     "PeerEndpoint", "PeerAllowedIPsCount"}

LabelNames(v) ==
    IF v \in {"PeersTotal", "InterfaceListeningPort"} THEN {"interface"}
    ELSE IF v = "PeerEndpoint" THEN {"interface", "peer", "endpoint"}
    ELSE {"interface", "peer"}

\* GaugeVec.With(labels) returns the series of exactly these label values,
\* and panics unless the map has exactly the declared label names.
WithOK(v, labels) == DOMAIN labels = LabelNames(v)

-----------------------------------------------------------------------------
(* wireguard/collector.go: label maps                                      *)

\* cfg.InterfaceLabels[ifaceName] when it exists, else the empty map.
CustomLabels(ifaceName) ==
    IF ifaceName \in DOMAIN cfg.InterfaceLabels THEN cfg.InterfaceLabels[ifaceName]
    ELSE <<>>

\* labels[k] = v for every custom label, written after (over) the built-ins.
buildLabels(ifaceName) == CustomLabels(ifaceName) @@ [interface |-> ifaceName]

buildPeerLabels(ifaceName, peer) ==
    CustomLabels(ifaceName)
        @@ [interface |-> ifaceName, peer_public_key |-> peer.PublicKey]

\* The copy of peerLabels with the "endpoint" entry set.
EndpointLabels(peerLabels, endpoint) == ("endpoint" :> endpoint) @@ peerLabels

-----------------------------------------------------------------------------
(* wireguard/collector.go: the writes of one interface, in program order.  *)
(* A write is [vec, labels, value]: vec.With(labels).Set(value).           *)

PeerWrites(ifaceName, peer, clock) ==
    LET peerLabels == buildPeerLabels(ifaceName, peer)
        hs         == peer.LatestHandshake
        shown      == cfg.ShowEndpoints /\ peer.Endpoint # <<>>
    IN  << [vec |-> "PeerLatestHandshakeSeconds", labels |-> peerLabels,
            value |-> IF ~hs.isZero THEN hs.unix ELSE 0],
           [vec |-> "PeerHandshakeAgeSeconds", labels |-> peerLabels,
            value |-> IF ~hs.isZero THEN clock - hs.unix ELSE 0],
           [vec |-> "PeerBytesSent", labels |-> peerLabels, value |-> peer.BytesSent],
           [vec |-> "PeerBytesReceived", labels |-> peerLabels,
            value |-> peer.BytesReceived],
           [vec |-> "PeerEndpoint",
            labels |-> EndpointLabels(peerLabels, IF shown THEN peer.Endpoint ELSE <<>>),
            value |-> IF shown THEN 1 ELSE 0],
           [vec |-> "PeerAllowedIPsCount", labels |-> peerLabels,
            value |-> Len(peer.AllowedIPs)] >>

RECURSIVE PeersWrites(_, _, _)
PeersWrites(ifaceName, peers, clock) ==
    IF peers = <<>> THEN <<>>
    ELSE PeerWrites(ifaceName, Head(peers), clock)
             \o PeersWrites(ifaceName, Tail(peers), clock)

InterfaceWrites(ifaceName, iface, clock) ==
    << [vec |-> "PeersTotal", labels |-> buildLabels(ifaceName),
        value |-> Len(iface.Peers)],
       [vec |-> "InterfaceListeningPort", labels |-> buildLabels(ifaceName),
        value |-> iface.ListeningPort] >>
        \o PeersWrites(ifaceName, iface.Peers, clock)

\* vec.With(labels).Set(value): the series of these label values is created
\* or overwritten.  cyc and src record which cycle wrote it, for which
\* interface.
SetSeries(series, w, cyc, src) ==
    {x \in series : x.labels # w.labels}
        \cup {[labels |-> w.labels, value |-> w.value, cyc |-> cyc, src |-> src]}

\* The writes applied in order, up to the first With that panics.
RECURSIVE ApplyWrites(_, _, _, _)
ApplyWrites(vs, writes, cyc, src) ==
    IF writes = <<>> THEN [vecs |-> vs, panicked |-> FALSE]
    ELSE LET w == Head(writes)
         IN  IF ~WithOK(w.vec, w.labels) THEN [vecs |-> vs, panicked |-> TRUE]
             ELSE ApplyWrites([vs EXCEPT ![w.vec] = SetSeries(vs[w.vec], w, cyc, src)],
                              Tail(writes), cyc, src)

\* Reset() of the eight vectors.
MutNoReset == vecs

\* Reset() of the six peer vectors only.
MutResetPeerVecsOnly ==
    [v \in VecNames |->
        IF v \in {"PeersTotal", "InterfaceListeningPort"} THEN vecs[v] ELSE {}]

ResetAll == [v \in VecNames |-> {}]

\* Collect(ch) of seven vectors, the listening port forgotten.
MutSnapshotSevenVecs(vs) ==
    UNION {{[vec |-> v, labels |-> x.labels, value |-> x.value,
             cyc |-> x.cyc, src |-> x.src] : x \in vs[v]} :
           v \in VecNames \ {"InterfaceListeningPort"}}

\* vec.Collect(ch) of the eight vectors: every series they hold.
Snapshot(vs) ==
    UNION {{[vec |-> v, labels |-> x.labels, value |-> x.value,
             cyc |-> x.cyc, src |-> x.src] : x \in vs[v]} : v \in VecNames}

-----------------------------------------------------------------------------
(* The environment: configurations and answers of the wg tool.             *)

Str_Invalid == <<119, 103, 59, 120>>                      \* "wg;x"
Str_dc1     == <<100, 99, 49>>                            \* "dc1"

\* A subprocess that failed: launch failure, non-zero exit or timeout.
RunFailed == [ok |-> FALSE, out |-> <<>>]

RunOK(text) == [ok |-> TRUE, out |-> text]

\* Answers of `wg show interfaces`.
DiscoveryRuns ==
    {RunFailed,
     RunOK(<<>>),
     RunOK(JoinLines(<<Str_wg0>>)),
     RunOK(JoinLines(<<Str_wg0, Str_wg1>>)),
     RunOK(JoinLines(<<Str_Invalid, Str_wg0>>))}

\* Answers of `wg show <name> dump`: a failure, an empty output, an
\* interface without peers, one with two peers.
DumpRuns ==
    {RunFailed,
     RunOK(<<>>),
     RunOK(JoinLines(<<Hdr_Privileged>>)),
     RunOK(JoinLines(<<Hdr_Privileged, Line_Peer1, Line_Peer2>>))}

\* config.Config values: the default, a deny-list with hidden endpoints,
\* a static location label, a static label named "interface".
Configs ==
    {[InterfacesDenylist |-> <<>>, ShowEndpoints |-> TRUE, InterfaceLabels |-> <<>>],
     [InterfacesDenylist |-> <<Str_wg1>>, ShowEndpoints |-> FALSE,
      InterfaceLabels |-> <<>>],
     [InterfacesDenylist |-> <<>>, ShowEndpoints |-> TRUE,
      InterfaceLabels |-> (Str_wg1 :> ("location" :> Str_dc1))],
     [InterfacesDenylist |-> <<>>, ShowEndpoints |-> TRUE,
      InterfaceLabels |-> (Str_wg0 :> ("interface" :> Str_wg1))]}

-----------------------------------------------------------------------------
(* wireguard/collector.go: Collector.Collect, one scrape goroutine s.      *)
(* pc: "idle" (not called yet), "reset" (discovery succeeded), "loop" (in  *)
(* the loop over the interfaces), "done" (returned), "panicked".           *)
(* interfaces, idx and ch are the locals and the channel of the call; the  *)
(* rest records the call for the properties: cyc its number, discOK and    *)
(* discOut the discovery answer, invoked the names `show <name> dump` ran  *)
(* for, parsed the ParseInterfaceData results in order, prevSrc the        *)
(* interfaces with series in the vectors when the call began, last the     *)
(* previous call of the goroutine when it ran to its end, overlapped       *)
(* whether another call was running at some moment of this one.            *)

\* No previous call that ran to its end.
NoCycle == [ran |-> FALSE, discOut |-> <<>>, parsed |-> <<>>, ch |-> {}]

\* What a call that returned after its Collect(ch) calls leaves behind.
Completed(rec) ==
    IF rec.pc = "done" /\ rec.discOK
    THEN [ran |-> TRUE, discOut |-> rec.discOut, parsed |-> rec.parsed, ch |-> rec.ch]
    ELSE NoCycle

IdleScrape ==
    [pc |-> "idle", cyc |-> 0, discOK |-> TRUE, discOut |-> <<>>,
     interfaces |-> <<>>, idx |-> 1, invoked |-> {}, parsed |-> <<>>, ch |-> {},
     prevSrc |-> {}, last |-> NoCycle, overlapped |-> FALSE]

\* A failure branch that falls through to the Collect(ch) calls.
MutAbortEmits(rec) == [rec EXCEPT !.pc = "done", !.discOK = FALSE, !.ch = Snapshot(vecs)]

\* `if err != nil { ...; return }` after DiscoverInterfaces: nothing is
\* reset, parsed or sent.
AbortCycle(rec) == [rec EXCEPT !.pc = "done", !.discOK = FALSE]

\* The call of s is between its discovery and its return.
Running(s) == scr[s].pc \in {"reset", "loop"}

\* Collect is called in goroutine s: DiscoverInterfaces runs
\* `wg show interfaces`, whose answer is whatever the daemon holds at that
\* moment.  Nothing in Collect waits for another call to end.
CollectCall(s) ==
    /\ alive
    /\ scr[s].pc \in {"idle", "done"}
    /\ cycle < MaxCycles
    /\ cycle' = cycle + 1
    /\ \E run \in DiscoveryRuns :
        LET others == \E t \in DOMAIN scr \ {s} : Running(t)
            fresh  == [IdleScrape EXCEPT !.cyc = cycle + 1, !.discOut = run.out,
                                        !.prevSrc = {x.src : x \in Snapshot(vecs)},
                                        !.last = Completed(scr[s])]
            begun  == IF ~run.ok THEN AbortCycle(fresh)
                      ELSE [fresh EXCEPT
                               !.pc = "reset",
                               !.overlapped = others,
                               !.interfaces =
                                   DiscoverInterfaces(run.out, cfg.InterfacesDenylist)]
        IN  scr' = [t \in DOMAIN scr |->
                       IF t = s THEN begun
                       ELSE IF run.ok /\ Running(t) THEN [scr[t] EXCEPT !.overlapped = TRUE]
                       ELSE scr[t]]
    /\ UNCHANGED <<cfg, vecs, alive, now, arg, ret>>

\* A call made by a caller that serves one scrape at a time.
Discover(s) ==
    /\ \A t \in DOMAIN scr : t # s => scr[t].pc \in {"idle", "done"}
    /\ CollectCall(s)

\* The eight Reset() calls.
Reset(s) ==
    /\ alive
    /\ scr[s].pc = "reset"
    /\ vecs' = ResetAll
    /\ scr' = [scr EXCEPT ![s].pc = "loop", ![s].idx = 1]
    /\ UNCHANGED <<cfg, cycle, alive, now, arg, ret>>

\* One iteration of `for _, ifaceName := range interfaces`: parse the dump
\* the daemon answers at that moment, skip the interface on error, else
\* write its series; a With that panics ends the process.  The subprocess
\* takes time: the clock that time.Since reads afterwards is any instant
\* from now on.
ProcessInterface(s) ==
    /\ alive
    /\ scr[s].pc = "loop"
    /\ scr[s].idx <= Len(scr[s].interfaces)
    /\ \E clock \in now..(2000 + MaxTicks), run \in DumpRuns :
        LET ifaceName == scr[s].interfaces[scr[s].idx]
            res       == ParseInterfaceData(ifaceName, run)
            ran       == IF isValidInterfaceName(ifaceName) THEN {ifaceName} ELSE {}
            done      == [scr[s] EXCEPT
                             !.idx = @ + 1,
                             !.invoked = @ \cup ran,
                             !.parsed = Append(@, [name |-> ifaceName, err |-> res.err,
                                                   iface |-> res.iface])]
            out       == ApplyWrites(vecs, InterfaceWrites(ifaceName, res.iface, clock),
                                     scr[s].cyc, ifaceName)
        IN  /\ now' = clock
            /\ IF res.err
               THEN /\ scr' = [scr EXCEPT ![s] = done]
                    /\ UNCHANGED <<vecs, alive>>
               ELSE /\ vecs' = out.vecs
                    /\ alive' = ~out.panicked
                    /\ scr' = [scr EXCEPT ![s] =
                                  IF out.panicked THEN [done EXCEPT !.pc = "panicked"]
                                  ELSE done]
    /\ UNCHANGED <<cfg, cycle, arg, ret>>

\* The eight Collect(ch) calls after the loop, and the return.
Emit(s) ==
    /\ alive
    /\ scr[s].pc = "loop"
    /\ scr[s].idx > Len(scr[s].interfaces)
    /\ scr' = [scr EXCEPT ![s].pc = "done", ![s].ch = Snapshot(vecs)]
    /\ UNCHANGED <<cfg, vecs, cycle, alive, now, arg, ret>>

\* The exporter after start-up: empty vectors, no scrape yet.
Init ==
    /\ cfg \in Configs
    /\ vecs = [v \in VecNames |-> {}]
    /\ scr = [s \in {1} |-> IdleScrape]
    /\ cycle = 0
    /\ alive = TRUE
    /\ now = 2000
    /\ arg = <<>>
    /\ ret = <<>>

Next ==
    \/ \E s \in DOMAIN scr : Discover(s)
    \/ \E s \in DOMAIN scr : Reset(s)
    \/ \E s \in DOMAIN scr : ProcessInterface(s)
    \/ \E s \in DOMAIN scr : Emit(s)

\* Scrapes served one at a time: non-overlapping Collect cycles.
Spec == Init /\ [][Next]_vars

-----------------------------------------------------------------------------
(* Specifications of the pure functions: the input is drawn in the initial *)
(* state, an action applies the function and records its result.           *)

\* config.DefaultConfig()
DefaultConfig ==
    [InterfacesDenylist |-> <<>>, ShowEndpoints |-> TRUE, InterfaceLabels |-> <<>>]

\* The collector at rest, for the specifications that do not run it.
CollectorAtRest ==
    /\ cfg = DefaultConfig
    /\ vecs = [v \in VecNames |-> {}]
    /\ scr = [s \in {1} |-> IdleScrape]
    /\ cycle = 0
    /\ alive = TRUE
    /\ now = 2000

Applied(f) == f \in DOMAIN ret

\* Runes tried in interface names: the ends of the accepted ranges, their
\* neighbours, shell metacharacters, white space, a non-ASCII letter.
ProbeRunes ==
    {9, 32, 36, 45, 46, 47, 48, 57, 58, 59, 64, 65, 90, 91, 95, 96, 97, 122, 123, 124,
     233}

\* Names of every length up to MaxNameLen: all 'a', or with one probe rune.
NameInputs ==
    {[i \in 1..n |-> IF i = k THEN c ELSE 97] :
        n \in 0..MaxNameLen, k \in 0..MaxNameLen, c \in ProbeRunes}

InitValid ==
    /\ CollectorAtRest
    /\ arg \in NameInputs
    /\ ret = <<>>

ApplyValid ==
    /\ ~Applied("isValidInterfaceName")
    /\ ret' = ret @@ ("isValidInterfaceName" :> isValidInterfaceName(arg))
    /\ UNCHANGED <<cfg, vecs, scr, cycle, alive, now, arg>>

SpecValid == InitValid /\ [][ApplyValid]_vars

-----------------------------------------------------------------------------
(* Claims about isValidInterfaceName, under SpecValid.                     *)

\* The characters an interface name may hold: ASCII letters, digits, '-'
\* and '_'.
NameAlphabet == (65..90) \cup (97..122) \cup (48..57) \cup {45, 95}

ValidNameSpec(name) ==
    /\ Len(name) >= 1
    /\ Len(name) <= 15
    /\ \A i \in 1..Len(name) : name[i] \in NameAlphabet

\* C6: isValidInterfaceName returns true if and only if the length of the
\* string is between 1 and 15 and every character is an ASCII letter, a
\* digit, '-' or '_'; a string containing ';', '|', '$' or a space is
\* rejected.
C6_ValidIffShortAndPlain ==
    Applied("isValidInterfaceName") =>
        /\ ret["isValidInterfaceName"] <=> ValidNameSpec(arg)
        /\ (\E i \in 1..Len(arg) : arg[i] \in {59, 124, 36, 32})
               => ~ret["isValidInterfaceName"]

\* A name of the maximal length 15 with a digit in it was accepted.
C6_Witness ==
    /\ Applied("isValidInterfaceName")
    /\ Len(arg) = 15
    /\ \E i \in 1..Len(arg) : arg[i] = 57
    /\ ret["isValidInterfaceName"]

-----------------------------------------------------------------------------
(* The dump parsers, both variants applied to the same dump of wg0.        *)

\* All sequences over S of length at most n.
SeqsUpTo(S, n) == UNION {[1..k -> S] : k \in 0..n}

\* Header lines, each with what it holds: shape names the format, priv, pub
\* and port are the keys and the port that wg put into the line.
DumpHeaders ==
    {[shape |-> "restricted", text |-> Hdr_Fixture,
      priv |-> <<>>, pub |-> Str_PUBKEY, port |-> 51820],
     [shape |-> "restricted", text |-> Hdr_Restricted,
      priv |-> <<>>, pub |-> Str_PUBKEY, port |-> 51820],
     [shape |-> "privileged", text |-> Hdr_Privileged,
      priv |-> Str_PRIVKEY, pub |-> Str_PUBKEY, port |-> 51820],
     [shape |-> "privileged", text |-> Hdr_PrivilegedNoPort,
      priv |-> Str_PRIVKEY, pub |-> Str_PUBKEY, port |-> 0],
     [shape |-> "malformed", text |-> Str_PUBKEY,
      priv |-> <<>>, pub |-> Str_PUBKEY, port |-> 0],
     [shape |-> "malformed", text |-> <<>>,
      priv |-> <<>>, pub |-> <<>>, port |-> 0]}

PeerLineTexts == {Line_Fixture, Line_Peer1, Line_Peer2, Line_EmptyIP, Line_Short, <<>>}

DumpInputs ==
    {[hdr |-> h, lines |-> ls, text |-> JoinLines(<<h.text>> \o ls)] :
        h \in DumpHeaders, ls \in SeqsUpTo(PeerLineTexts, MaxPeerLines)}

InitDump ==
    /\ CollectorAtRest
    /\ arg \in DumpInputs
    /\ ret = <<>>

ApplyParse ==
    /\ ~Applied("ParseInterfaceData")
    /\ ret' = ret @@ ("ParseInterfaceData" :>
                          ParseInterfaceData(Str_wg0, RunOK(arg.text)))
    /\ UNCHANGED <<cfg, vecs, scr, cycle, alive, now, arg>>

ApplyParseRestricted ==
    /\ ~Applied("ParseInterfaceDataRestricted")
    /\ ret' = ret @@ ("ParseInterfaceDataRestricted" :>
                          ParseInterfaceDataRestricted(Str_wg0, RunOK(arg.text)))
    /\ UNCHANGED <<cfg, vecs, scr, cycle, alive, now, arg>>

NextDump == ApplyParse \/ ApplyParseRestricted

SpecDump == InitDump /\ [][NextDump]_vars

-----------------------------------------------------------------------------
(* Claims about the dump parsers, under SpecDump.                          *)

\* The Interface the parsing fixture describes.
FixtureInterface ==
    [Name |-> Str_wg0, PublicKey |-> Str_PUBKEY, ListeningPort |-> 51820,
     Peers |-> << [PublicKey |-> Str_PEER2, DisplayName |-> <<>>, Endpoint |-> <<>>,
                   AllowedIPs |-> <<Str_IP2>>, LatestHandshake |-> ZeroTime,
                   BytesReceived |-> 100, BytesSent |-> 200] >>]

\* The dump is the fixture: header "PUBKEY 51820", one six-field peer line.
IsFixtureDump == arg.hdr.text = Hdr_Fixture /\ arg.lines = <<Line_Fixture>>

\* The same interface and peer as wg prints them to a privileged caller.
IsPrivilegedFixtureDump == arg.hdr.text = Hdr_Privileged /\ arg.lines = <<Line_Peer2>>

\* C7 as stated: parsing the fixture dump succeeds and yields the fixture
\* Interface (port 51820, one peer PEER2 without endpoint and handshake,
\* allowedIPs ["10.0.0.2/32"], 100 bytes received, 200 sent), whichever
\* ParseInterfaceData parses it.
C7_FixtureParses ==
    IsFixtureDump =>
        \A f \in DOMAIN ret : ret[f] = [err |-> FALSE, iface |-> FixtureInterface]

\* C7 amended: the restricted-header variant parses the fixture dump to the
\* fixture Interface; ParseInterfaceData of wireguard/parser.go rejects it
\* with an error, since its header has fewer than four fields, and yields
\* the fixture Interface for the same data in the privileged format.
C7_FixtureParsesRestricted ==
    /\ (IsFixtureDump /\ Applied("ParseInterfaceDataRestricted")) =>
           ret["ParseInterfaceDataRestricted"]
               = [err |-> FALSE, iface |-> FixtureInterface]
    /\ (IsFixtureDump /\ Applied("ParseInterfaceData")) =>
           ret["ParseInterfaceData"] = [err |-> TRUE, iface |-> NilInterface]
    /\ (IsPrivilegedFixtureDump /\ Applied("ParseInterfaceData")) =>
           ret["ParseInterfaceData"] = [err |-> FALSE, iface |-> FixtureInterface]

\* Both parsers have parsed the fixture dump.
C7_Witness ==
    /\ IsFixtureDump
    /\ Applied("ParseInterfaceData")
    /\ Applied("ParseInterfaceDataRestricted")

\* Every string held by an Interface: its name, its key, the peers' fields.
InterfaceStrings(iface) ==
    {iface.Name, iface.PublicKey}
        \cup UNION {{iface.Peers[i].PublicKey, iface.Peers[i].DisplayName,
                     iface.Peers[i].Endpoint}
                        \cup {iface.Peers[i].AllowedIPs[j] :
                                 j \in 1..Len(iface.Peers[i].AllowedIPs)} :
                    i \in 1..Len(iface.Peers)}

\* C8: for every privileged or restricted dump header that a
\* ParseInterfaceData accepts, Interface.PublicKey is the header's
\* public-key field, ListeningPort its port field, and the private key is
\* in no field of the Interface.
C8_PublicKeyNeverPrivate ==
    \A f \in DOMAIN ret :
        (arg.hdr.shape \in {"privileged", "restricted"} /\ ~ret[f].err) =>
            /\ ret[f].iface.PublicKey = arg.hdr.pub
            /\ ret[f].iface.ListeningPort = arg.hdr.port
            /\ arg.hdr.shape = "privileged"
                   => arg.hdr.priv \notin InterfaceStrings(ret[f].iface)

-----------------------------------------------------------------------------
(* ParseWireGuardConfigFile applied to config files of a few lines.        *)

Str_ABC   == <<65, 66, 67>>                               \* "ABC"
Str_DEF   == <<68, 69, 70>>                               \* "DEF"
Str_Phone == <<80, 104, 111, 110, 101>>                   \* "Phone"
Str_Tab   == <<84, 97, 98>>                               \* "Tab"

\* "[Interface]"
Conf_Interface == <<91, 73, 110, 116, 101, 114, 102, 97, 99, 101, 93>>
\* "PublicKey = ABC"
Conf_KeyABC == <<80, 117, 98, 108, 105, 99, 75, 101, 121, 32, 61, 32, 65, 66, 67>>
\* "PublicKey = DEF"
Conf_KeyDEF == <<80, 117, 98, 108, 105, 99, 75, 101, 121, 32, 61, 32, 68, 69, 70>>
\* "# display-name = Phone"
Conf_NamePhone ==
    <<35, 32, 100, 105, 115, 112, 108, 97, 121, 45, 110, 97, 109, 101, 32, 61, 32, 80,
      104, 111, 110, 101>>
\* "#Display_Name=Tab"
Conf_NameTab ==
    <<35, 68, 105, 115, 112, 108, 97, 121, 95, 78, 97, 109, 101, 61, 84, 97, 98>>

ConfLineTexts ==
    {Str_PeerSection, Conf_Interface, Conf_KeyABC, Conf_KeyDEF, Conf_NamePhone,
     Conf_NameTab}

\* A config file is given by its lines; its content is JoinLines of them.
ConfInputs == SeqsUpTo(ConfLineTexts, MaxConfLines)

InitConf ==
    /\ CollectorAtRest
    /\ arg \in ConfInputs
    /\ ret = <<>>

ApplyParseConfig ==
    /\ ~Applied("ParseWireGuardConfigFile")
    /\ ret' = ret @@ ("ParseWireGuardConfigFile" :>
                          ParseWireGuardConfigFile(JoinLines(arg)))
    /\ UNCHANGED <<cfg, vecs, scr, cycle, alive, now, arg>>

SpecConf == InitConf /\ [][ApplyParseConfig]_vars

-----------------------------------------------------------------------------
(* Claims about ParseWireGuardConfigFile, under SpecConf.                  *)

\* "[Peer]\nPublicKey = ABC\n# display-name = Phone\n[Peer]\nPublicKey = DEF\n"
FixtureConf ==
    <<Str_PeerSection, Conf_KeyABC, Conf_NamePhone, Str_PeerSection, Conf_KeyDEF>>

IsSectionLine(l) == HasPrefix(TrimSpace(l), <<91>>)
IsKeyLine(l)     == MatchPublicKey(TrimSpace(l)).ok
IsNameLine(l)    == MatchDisplayName(TrimSpace(l)).ok

\* Lines i < j of the file are the one PublicKey line and the one
\* display-name comment of the same [Peer] section.
OnlyPairOfPeerSection(lines, i, j) ==
    /\ i < j
    /\ \/ IsKeyLine(lines[i]) /\ IsNameLine(lines[j])
       \/ IsNameLine(lines[i]) /\ IsKeyLine(lines[j])
    /\ \E h \in 1..(i - 1) :
          /\ HasPrefix(TrimSpace(lines[h]), Str_PeerSection)
          /\ \A k \in (h + 1)..j : ~IsSectionLine(lines[k])
          /\ \A k \in (h + 1)..Len(lines) :
                (k \notin {i, j} /\ (IsKeyLine(lines[k]) \/ IsNameLine(lines[k])))
                    => \E m \in (j + 1)..(k - 1) : IsSectionLine(lines[m])

SwapLines(lines, i, j) == [lines EXCEPT ![i] = lines[j], ![j] = lines[i]]

\* C9: the fixture file (a [Peer] section with PublicKey = ABC and the
\* comment display-name = Phone, then a [Peer] section with PublicKey = DEF
\* only) yields exactly {ABC: Phone}; and swapping the PublicKey line and
\* the display-name comment of a [Peer] section that holds one of each
\* does not change the mapping.
C9_FixtureAndOrderIndependence ==
    Applied("ParseWireGuardConfigFile") =>
        /\ arg = FixtureConf => ret["ParseWireGuardConfigFile"] = (Str_ABC :> Str_Phone)
        /\ \A i, j \in 1..Len(arg) :
              OnlyPairOfPeerSection(arg, i, j) =>
                  ParseWireGuardConfigFile(JoinLines(SwapLines(arg, i, j)))
                      = ret["ParseWireGuardConfigFile"]

\* A file whose [Peer] section has the comment before the key, as in the
\* README, was parsed to a mapping with an entry.
C9_Witness ==
    /\ Applied("ParseWireGuardConfigFile")
    /\ \E i, j \in 1..Len(arg) :
          OnlyPairOfPeerSection(arg, i, j) /\ IsNameLine(arg[i])
    /\ ret["ParseWireGuardConfigFile"] # <<>>

-----------------------------------------------------------------------------
(* Claims about Collector.Collect, under Spec.                             *)

\* The elements of a sequence.
Elems(q) == {q[i] : i \in 1..Len(q)}

\* The Collect call of s has ended: it returned or it panicked.
Ended(s) == scr[s].pc \in {"done", "panicked"}

\* The names on the lines of this cycle's discovery output.
DiscoveredLines(s) ==
    {TrimSpace(l) : l \in Elems(Split(TrimSpace(scr[s].discOut), 10))}

\* The series of interface n in vector v.
SeriesOf(v, n) == {x \in vecs[v] : x.src = n}

\* C1 as stated: after each cycle the vectors hold no series that an
\* earlier cycle wrote for an interface absent from this cycle's daemon
\* data.
C1_NoStaleSeries ==
    \A s \in DOMAIN scr :
        scr[s].pc = "done" =>
            \A x \in Snapshot(vecs) :
                x.cyc < scr[s].cyc => x.src \in Elems(scr[s].interfaces)

\* C1 amended: in every cycle whose discovery succeeded the vectors are
\* reset before any value is written: from the Reset on they hold only
\* series written in this cycle, for interfaces of this cycle's discovery
\* that the loop has processed; and the snapshot of every cycle holds only
\* series written in that cycle.  (A cycle whose discovery failed returns
\* before the Reset: the series of the previous cycle stay in the vectors
\* and are not sent.)
C1_ResetBeforeRebuild ==
    \A s \in DOMAIN scr :
        /\ (scr[s].pc \in {"loop", "done", "panicked"} /\ scr[s].discOK) =>
               \A x \in Snapshot(vecs) :
                   /\ x.cyc = scr[s].cyc
                   /\ \E i \in 1..Len(scr[s].interfaces) :
                         i < scr[s].idx /\ scr[s].interfaces[i] = x.src
        /\ \A x \in scr[s].ch :
               x.cyc = scr[s].cyc /\ x.src \in Elems(scr[s].interfaces)

\* A cycle has returned whose discovery no longer listed an interface that
\* had series in the vectors when the cycle began, and that wrote series
\* of its own.
C1_Witness ==
    \E s \in DOMAIN scr :
        /\ scr[s].pc = "done"
        /\ scr[s].discOK
        /\ \E n \in scr[s].prevSrc : n \notin Elems(scr[s].interfaces)
        /\ Snapshot(vecs) # {}

\* C2: if discovery fails the cycle is aborted and its snapshot is empty:
\* no dump subprocess runs, no interface is parsed and nothing is sent,
\* neither a fresh series nor one left in the vectors by an earlier cycle.
C2_DiscoveryFailureEmpty ==
    \A s \in DOMAIN scr :
        (Ended(s) /\ ~scr[s].discOK) =>
            /\ scr[s].pc = "done"
            /\ scr[s].ch = {}
            /\ scr[s].invoked = {}
            /\ scr[s].parsed = <<>>

\* A cycle was aborted by a discovery failure while the vectors still held
\* series of an earlier cycle.
C2_Witness ==
    \E s \in DOMAIN scr :
        /\ scr[s].pc = "done"
        /\ ~scr[s].discOK
        /\ Snapshot(vecs) # {}

\* The series an interface has when its set is complete: one peers-total
\* and one listening-port series, and one series per peer in each of the
\* six peer vectors.
CompleteSeries(e) ==
    /\ \A v \in {"PeersTotal", "InterfaceListeningPort"} :
          Cardinality(SeriesOf(v, e.name)) = 1
    /\ \A v \in VecNames \ {"PeersTotal", "InterfaceListeningPort"} :
          Cardinality(SeriesOf(v, e.name)) = Len(e.iface.Peers)

\* C3: when ParseInterfaceData fails for one discovered interface, that
\* interface contributes no series and every other discovered interface
\* still gets its complete set of series in the same cycle.
C3_ParseFailureSkipsOnlyThatInterface ==
    \A s \in DOMAIN scr :
        (Ended(s) /\ scr[s].discOK /\ \E e \in Elems(scr[s].parsed) : e.err) =>
            \A e \in Elems(scr[s].parsed) :
                IF e.err THEN \A v \in VecNames : SeriesOf(v, e.name) = {}
                ELSE CompleteSeries(e)

\* "[Peer]\nPublicKey = PEER1\n# display-name = Phone\n": the companion
\* config file of wg0 in the full-cycle scenario.
Conf_wg0 ==
    JoinLines(<<Str_PeerSection,
                <<80, 117, 98, 108, 105, 99, 75, 101, 121, 32, 61, 32, 80, 69, 69, 82,
                  49>>,
                Conf_NamePhone>>)

\* The identity the `peer` label is to carry: the display name of the
\* companion config file when there is one, else the public key.
PeerIdentity(peer) ==
    LET names == ParseWireGuardConfigFile(Conf_wg0)
    IN  IF peer.PublicKey \in DOMAIN names THEN names[peer.PublicKey]
        ELSE peer.PublicKey

\* The full-cycle scenario: discovery printed an invalid name and wg0, and
\* wg0 was parsed with its two peers.
FullCycleScenario(s) ==
    /\ scr[s].discOut = JoinLines(<<Str_Invalid, Str_wg0>>)
    /\ Len(scr[s].parsed) = 1
    /\ ~scr[s].parsed[1].err
    /\ Len(scr[s].parsed[1].iface.Peers) = 2

\* C4: in the full-cycle scenario the snapshot has series only for the
\* valid interface, the `peer` label of the peer with a display name is the
\* display name, the `peer` label of the other peer is its public key, and
\* the peers-total gauge of the interface is 2.
C4_FullCyclePeerLabels ==
    \A s \in DOMAIN scr :
        (Ended(s) /\ FullCycleScenario(s)) =>
            /\ \A x \in scr[s].ch : x.labels["interface"] = Str_wg0
            /\ \E x \in scr[s].ch : x.vec = "PeersTotal" /\ x.value = 2
            /\ \A p \in Elems(scr[s].parsed[1].iface.Peers) :
                  \E x \in scr[s].ch :
                      /\ x.vec = "PeerBytesSent"
                      /\ "peer" \in DOMAIN x.labels
                      /\ x.labels["peer"] = PeerIdentity(p)

\* C5: every name for which `show <name> dump` runs in a cycle, and every
\* interface with a series in the cycle's snapshot, is a name of the
\* cycle's discovery output that is valid and not in the deny-list; no
\* series in the vectors belongs to an invalid or deny-listed name.
C5_OnlyValidatedNamesInvoked ==
    \A s \in DOMAIN scr :
        /\ \A n \in scr[s].invoked \cup {x.src : x \in scr[s].ch} :
              /\ ValidNameSpec(n)
              /\ n \notin Elems(cfg.InterfacesDenylist)
              /\ n \in DiscoveredLines(s)
        /\ \A x \in Snapshot(vecs) :
              ValidNameSpec(x.src) /\ x.src \notin Elems(cfg.InterfacesDenylist)

\* A cycle returned whose discovery output held a name of the deny-list
\* next to a name the dump subprocess ran for.
C5_Witness ==
    \E s \in DOMAIN scr :
        /\ scr[s].pc = "done"
        /\ scr[s].invoked # {}
        /\ \E n \in DiscoveredLines(s) : n \in Elems(cfg.InterfacesDenylist)

\* The endpoint series of a peer: those of the interface's series whose
\* `peer` label is the peer.
EndpointSeries(ch, name, peer) ==
    {x \in ch : /\ x.vec = "PeerEndpoint"
                /\ x.src = name
                /\ "peer" \in DOMAIN x.labels
                /\ x.labels["peer"] = peer.PublicKey}

\* C10: with endpoint display disabled no series carries a non-empty
\* `endpoint` label; and in every cycle each peer has exactly one endpoint
\* series, with value 1 and the peer's endpoint as label when display is
\* enabled and the peer has an endpoint, else with value 0 and an empty
\* label.
C10_OneEndpointSeriesPerPeer ==
    \A s \in DOMAIN scr :
        Ended(s) =>
            /\ ~cfg.ShowEndpoints =>
                  \A x \in scr[s].ch :
                      "endpoint" \in DOMAIN x.labels => x.labels["endpoint"] = <<>>
            /\ \A e \in Elems(scr[s].parsed) : \A p \in Elems(e.iface.Peers) :
                  ~e.err =>
                      LET shown == cfg.ShowEndpoints /\ p.Endpoint # <<>>
                      IN  /\ Cardinality(EndpointSeries(scr[s].ch, e.name, p)) = 1
                          /\ \A x \in EndpointSeries(scr[s].ch, e.name, p) :
                                /\ x.value = (IF shown THEN 1 ELSE 0)
                                /\ x.labels["endpoint"]
                                       = (IF shown THEN p.Endpoint ELSE <<>>)

-----------------------------------------------------------------------------
(* Two cycles in a row over the same data.                                 *)

\* A snapshot as a scraper sees it, without the clock-dependent handshake
\* age: vector, label values, value.
Comparable(ch) ==
    {[vec |-> x.vec, labels |-> x.labels, value |-> x.value] :
        x \in {y \in ch : y.vec # "PeerHandshakeAgeSeconds"}}

\* The call of s returned after a call that returned too, and both saw the
\* same discovery output and the same parsed data.
SecondOfTwoAlike(s) ==
    /\ scr[s].pc = "done"
    /\ scr[s].discOK
    /\ scr[s].last.ran
    /\ scr[s].last.discOut = scr[s].discOut
    /\ scr[s].last.parsed = scr[s].parsed

\* C11: the second of two cycles over identical data sends the same series
\* as the first, apart from the handshake age; it holds one series per
\* vector and label set (no duplicate), each of an interface parsed in the
\* cycle with the value the parsed data gives (no accumulation, nothing
\* left from the first cycle).
C11_SecondCycleIdentical ==
    \A s \in DOMAIN scr :
        SecondOfTwoAlike(s) =>
            /\ Comparable(scr[s].ch) = Comparable(scr[s].last.ch)
            /\ \A x, y \in scr[s].ch :
                  (x.vec = y.vec /\ x.labels = y.labels) => x = y
            /\ \A x \in scr[s].ch :
                  /\ x.cyc = scr[s].cyc
                  /\ \E e \in Elems(scr[s].parsed) :
                        /\ ~e.err
                        /\ e.name = x.src
                        /\ x.vec = "PeersTotal" => x.value = Len(e.iface.Peers)
                        /\ x.vec = "InterfaceListeningPort"
                               => x.value = e.iface.ListeningPort

\* Two cycles in a row over the same data have returned, each with a
\* snapshot that is not empty.
C11_Witness ==
    \E s \in DOMAIN scr :
        /\ SecondOfTwoAlike(s)
        /\ scr[s].ch # {}
        /\ scr[s].last.ch # {}

-----------------------------------------------------------------------------
(* The parsers of the human-readable `wg show` format (restricted-header   *)
(* parser file): ParseTransferStats and parseSize.                         *)

\* strings.ToLower and strings.ToUpper on ASCII text.
Upper(c) == IF c >= 97 /\ c <= 122 THEN c - 32 ELSE c

ToLower(s) == [i \in 1..Len(s) |-> Lower(s[i])]

ToUpper(s) == [i \in 1..Len(s) |-> Upper(s[i])]

\* The literal lit matches s at position i, case kept.
MatchesExactAt(s, i, lit) ==
    /\ i + Len(lit) - 1 <= Len(s)
    /\ SubSeq(s, i, i + Len(lit) - 1) = lit

\* [\d.]
IsNumRune(c) == (c >= 48 /\ c <= 57) \/ c = 46

\* The first position from i on that holds no [\d.] (Len(s) + 1 if none).
SkipNum(s, i) ==
    CHOOSE j \in i..(Len(s) + 1) :
        /\ j = Len(s) + 1 \/ ~IsNumRune(s[j])
        /\ \A k \in i..(j - 1) : IsNumRune(s[k])

NoSizeMatch == [ok |-> FALSE, value |-> <<>>, unit |-> <<>>]

\* ([\d.]+)\s+([KMGT]?i?B)\s+<word> matched with its first rune at i: the
\* two groups.  The classes of neighbouring parts are disjoint, so the
\* greedy match is the only one.
MatchSizeAt(s, i, word) ==
    LET e  == SkipNum(s, i)
        j  == SkipSpace(s, e)
        u1 == IF j <= Len(s) /\ s[j] \in {75, 77, 71, 84} THEN j + 1 ELSE j
        u2 == IF u1 <= Len(s) /\ s[u1] = 105 THEN u1 + 1 ELSE u1
        w  == SkipSpace(s, u2 + 1)
    IN  IF /\ e > i
           /\ j > e
           /\ u2 <= Len(s) /\ s[u2] = 66
           /\ w > u2 + 1
           /\ MatchesExactAt(s, w, word)
        THEN [ok |-> TRUE, value |-> SubSeq(s, i, e - 1), unit |-> SubSeq(s, j, u2)]
        ELSE NoSizeMatch

\* FindStringSubmatch: the leftmost match, or nil.
FindSize(s, word) ==
    LET starts == {i \in 1..Len(s) : MatchSizeAt(s, i, word).ok}
    IN  IF starts = {} THEN NoSizeMatch
        ELSE MatchSizeAt(s, CHOOSE i \in starts : \A k \in starts : i <= k, word)

\* A uint64 byte count in two limbs: hi * 2^20 + lo, with lo < 2^20.
Limb == 1048576

ZeroBytes == [hi |-> 0, lo |-> 0]

RECURSIVE Pow(_, _)
Pow(b, k) == IF k = 0 THEN 1 ELSE b * Pow(b, k - 1)

\* uint64(value * float64(1024^k)) for value = num / den, truncated.
ScaledBytes(num, den, k) ==
    IF k <= 1
    THEN LET v == (num * Pow(1024, k)) \div den
         IN  [hi |-> v \div Limb, lo |-> v % Limb]
    ELSE LET t == num * Pow(1024, k - 2)
         IN  [hi |-> t \div den, lo |-> ((t % den) * Limb) \div den]

\* strconv.ParseFloat on text of digits and dots: at most one dot and at
\* least one digit, else an error.  The value is num / den.
ParseFloat(s) ==
    LET dots   == {i \in 1..Len(s) : s[i] = 46}
        digits == SelectSeq(s, LAMBDA c : c # 46)
        dot    == CHOOSE i \in dots : TRUE
    IN  IF Cardinality(dots) > 1 \/ ~IsDigits(digits) \/ Len(digits) + Cardinality(dots) # Len(s)
        THEN [ok |-> FALSE, num |-> 0, den |-> 1]
        ELSE [ok |-> TRUE, num |-> DigitsValue(digits, 0),
              den |-> IF dots = {} THEN 1 ELSE Pow(10, Len(s) - dot)]

\* The switch on strings.ToUpper(unit): the power of 1024, or -1 for the
\* default branch.
UnitPower(unit) ==
    LET u == ToUpper(unit)
    IN  IF u = <<66>> THEN 0
        ELSE IF u \in {<<75, 66>>, <<75, 73, 66>>} THEN 1
        ELSE IF u \in {<<77, 66>>, <<77, 73, 66>>} THEN 2
        ELSE IF u \in {<<71, 66>>, <<71, 73, 66>>} THEN 3
        ELSE IF u \in {<<84, 66>>, <<84, 73, 66>>} THEN 4
        ELSE 0 - 1

parseSize(valueStr, unit) ==
    LET value == ParseFloat(valueStr)
        k     == UnitPower(unit)
    IN  IF ~value.ok \/ k < 0 THEN [err |-> TRUE, bytes |-> ZeroBytes]
        ELSE [err |-> FALSE, bytes |-> ScaledBytes(value.num, value.den, k)]

Str_received == <<114, 101, 99, 101, 105, 118, 101, 100>>   \* "received"
Str_sent     == <<115, 101, 110, 116>>                      \* "sent"

\* The text both patterns are matched against.
TransferSubject(transferStr) == ToLower(transferStr)

ParseTransferStats(transferStr) ==
    LET failed ==
            [err |-> TRUE, received |-> ZeroBytes, sent |-> ZeroBytes]
        rm == FindSize(TransferSubject(transferStr), Str_received)
        sm == FindSize(TransferSubject(transferStr), Str_sent)
        r  == IF rm.ok THEN parseSize(rm.value, rm.unit)
              ELSE [err |-> FALSE, bytes |-> ZeroBytes]
        t  == IF sm.ok THEN parseSize(sm.value, sm.unit)
              ELSE [err |-> FALSE, bytes |-> ZeroBytes]
    IN  IF r.err THEN failed
        ELSE IF t.err THEN failed
        ELSE [err |-> FALSE, received |-> r.bytes, sent |-> t.bytes]


-----------------------------------------------------------------------------
(* ParseTransferStats on transfer lines of a received and a sent clause.   *)

\* Largest magnitude written in a clause.
MaxMagnitude == 3

\* strconv.Itoa for n >= 0
RECURSIVE Itoa(_)
Itoa(n) == IF n < 10 THEN <<48 + n>> ELSE Itoa(n \div 10) \o <<48 + (n % 10)>>

\* B, KB, KiB, MB, MiB, GB, GiB, TB, TiB as wg and people write them.
UnitTexts ==
    {<<66>>, <<75, 66>>, <<75, 105, 66>>, <<77, 66>>, <<77, 105, 66>>,
     <<71, 66>>, <<71, 105, 66>>, <<84, 66>>, <<84, 105, 66>>}

Str_XB == <<88, 66>>                                      \* "XB"

\* The units in the case given, in lower case and in upper case, and XB.
UnitInputs ==
    UnitTexts \cup {ToLower(u) : u \in UnitTexts} \cup {ToUpper(u) : u \in UnitTexts}
        \cup {Str_XB}

NoClause == [present |-> FALSE, mag |-> 0, unit |-> <<>>]

ClauseInputs ==
    {NoClause} \cup [present : {TRUE}, mag : 1..MaxMagnitude, unit : UnitInputs]

\* "<mag> <unit> <word>"
ClauseText(c, word) == Itoa(c.mag) \o <<32>> \o c.unit \o <<32>> \o word

\* "<rx> received, <tx> sent", either clause left out when absent.
TransferText(rx, tx) ==
    (IF rx.present THEN ClauseText(rx, Str_received) ELSE <<>>)
        \o (IF rx.present /\ tx.present THEN <<44, 32>> ELSE <<>>)
        \o (IF tx.present THEN ClauseText(tx, Str_sent) ELSE <<>>)

InitTransfer ==
    /\ CollectorAtRest
    /\ arg \in [rx : ClauseInputs, tx : ClauseInputs]
    /\ ret = <<>>

ApplyParseTransferStats ==
    /\ ~Applied("ParseTransferStats")
    /\ ret' = ret @@ ("ParseTransferStats" :>
                          ParseTransferStats(TransferText(arg.rx, arg.tx)))
    /\ UNCHANGED <<cfg, vecs, scr, cycle, alive, now, arg>>

SpecTransfer == InitTransfer /\ [][ApplyParseTransferStats]_vars

\* The byte count a clause stands for: magnitude x 1024^k, 0 when absent.
ClauseBytes(c) ==
    IF c.present THEN ScaledBytes(c.mag, 1, UnitPower(c.unit)) ELSE ZeroBytes

\* The clause has a unit that is none of B, KB/KiB ... TB/TiB in any case.
UnknownUnit(c) == c.present /\ ToUpper(c.unit) \notin {ToUpper(u) : u \in UnitTexts}

\* C12: ParseTransferStats returns for each clause present the byte count
\* magnitude x 1024^k, 0 for a clause that is missing, and an error when a
\* clause has an unrecognized unit.
C12_TransferStatsExact ==
    Applied("ParseTransferStats") =>
        LET r == ret["ParseTransferStats"]
        IN  IF UnknownUnit(arg.rx) \/ UnknownUnit(arg.tx) THEN r.err
            ELSE /\ ~r.err
                 /\ r.received = ClauseBytes(arg.rx)
                 /\ r.sent = ClauseBytes(arg.tx)


-----------------------------------------------------------------------------
(* ParseHandshakeTime (restricted-header parser file).                     *)

Str_ago    == <<32, 97, 103, 111>>                        \* " ago"
Str_day    == <<100, 97, 121>>                            \* "day"
Str_hour   == <<104, 111, 117, 114>>                      \* "hour"
Str_minute == <<109, 105, 110, 117, 116, 101>>            \* "minute"
Str_second == <<115, 101, 99, 111, 110, 100>>             \* "second"

\* strings.TrimSuffix
TrimSuffix(s, suffix) ==
    IF Len(s) >= Len(suffix) /\ SubSeq(s, Len(s) - Len(suffix) + 1, Len(s)) = suffix
    THEN SubSeq(s, 1, Len(s) - Len(suffix))
    ELSE s

\* The first position from i on that holds no digit (Len(s) + 1 if none).
SkipDigits(s, i) ==
    CHOOSE j \in i..(Len(s) + 1) :
        /\ j = Len(s) + 1 \/ ~(s[j] >= 48 /\ s[j] <= 57)
        /\ \A k \in i..(j - 1) : s[k] >= 48 /\ s[k] <= 57

\* (\d+)\s+<word> matched with its first rune at i: the group.
MatchUnitAt(s, i, word) ==
    LET e == SkipDigits(s, i)
        w == SkipSpace(s, e)
    IN  IF ~(s[i] >= 48 /\ s[i] <= 57) THEN NoMatch
        ELSE IF w > e /\ MatchesExactAt(s, w, word)
        THEN [ok |-> TRUE, val |-> SubSeq(s, i, e - 1)]
        ELSE NoMatch

\* A search that looks at the start of the text only.
MutFindUnitAnchored(s, word) == IF s = <<>> THEN NoMatch ELSE MatchUnitAt(s, 1, word)

\* regexp.MustCompile(`(\d+)\s+<word>`).FindStringSubmatch: the leftmost
\* match, or nil.
FindUnit(s, word) ==
    LET starts == {i \in 1..Len(s) : MatchUnitAt(s, i, word).ok}
    IN  IF starts = {} THEN NoMatch
        ELSE MatchUnitAt(s, CHOOSE i \in starts : \A k \in starts : i <= k, word)

\* The seconds one unit adds to totalDuration: its count times the length
\* of the unit when the pattern matches and Atoi succeeds, else nothing.
UnitSeconds(s, word, unitLen) ==
    LET m == FindUnit(s, word)
        n == Atoi(m.val)
    IN  IF m.ok /\ n.ok THEN n.val * unitLen ELSE 0

\* ParseHandshakeTime at the instant clock: the handshake time, the age
\* in seconds and the error, which is always nil.
ParseHandshakeTime(timeStr, clock) ==
    LET s     == TrimSpace(TrimSuffix(ToLower(timeStr), Str_ago))
        total == UnitSeconds(s, Str_day, 86400) + UnitSeconds(s, Str_hour, 3600)
                     + UnitSeconds(s, Str_minute, 60) + UnitSeconds(s, Str_second, 1)
    IN  [err |-> FALSE, handshake |-> TimeUnix(clock - total), age |-> total]

-----------------------------------------------------------------------------
(* ParseHandshakeTime on lists of unit clauses as wg prints them.          *)

\* Largest one-digit count written for a unit.
MaxUnitCount == 2

\* The counts written: the small ones and one of two digits.
UnitCounts == (1..MaxUnitCount) \cup {12}

HandshakeUnits == {Str_day, Str_hour, Str_minute, Str_second}

\* Lists of clauses with distinct units, every order of every subset.
ClauseLists ==
    {q \in SeqsUpTo([unit : HandshakeUnits, mag : UnitCounts], 4) :
        \A i, j \in 1..Len(q) : q[i].unit = q[j].unit => i = j}

\* "<mag> <unit>", the unit in the plural unless the magnitude is 1.
UnitClauseText(c) ==
    Itoa(c.mag) \o <<32>> \o c.unit \o (IF c.mag = 1 THEN <<>> ELSE <<115>>)

\* The clauses joined by ", ".
RECURSIVE JoinClauses(_)
JoinClauses(q) ==
    IF q = <<>> THEN <<>>
    ELSE IF Len(q) = 1 THEN UnitClauseText(q[1])
    ELSE UnitClauseText(q[1]) \o <<44, 32>> \o JoinClauses(Tail(q))

\* The handshake line: the clauses, " ago" or not, as written or in upper
\* case.
HandshakeText(in) ==
    LET text == JoinClauses(in.clauses) \o (IF in.ago THEN Str_ago ELSE <<>>)
    IN  IF in.upper THEN ToUpper(text) ELSE text

InitHandshake ==
    /\ CollectorAtRest
    /\ arg \in [clauses : ClauseLists, ago : BOOLEAN, upper : BOOLEAN]
    /\ ret = <<>>

ApplyParseHandshakeTime ==
    /\ ~Applied("ParseHandshakeTime")
    /\ ret' = ret @@ ("ParseHandshakeTime" :>
                          ParseHandshakeTime(HandshakeText(arg), now))
    /\ UNCHANGED <<cfg, vecs, scr, cycle, alive, now, arg>>

SpecHandshake == InitHandshake /\ [][ApplyParseHandshakeTime]_vars

\* Seconds in one unit.
SecondsIn(unit) ==
    IF unit = Str_day THEN 86400
    ELSE IF unit = Str_hour THEN 3600
    ELSE IF unit = Str_minute THEN 60
    ELSE 1

RECURSIVE ClauseSeconds(_)
ClauseSeconds(q) ==
    IF q = <<>> THEN 0 ELSE Head(q).mag * SecondsIn(Head(q).unit) + ClauseSeconds(Tail(q))

\* q with its first clause moved to the end, and q with its first two
\* clauses exchanged: repeated, the two give every order of the clauses.
Reorderings(q) ==
    IF Len(q) < 2 THEN {q}
    ELSE {Tail(q) \o <<Head(q)>>, <<q[2], q[1]>> \o SubSeq(q, 3, Len(q))}

\* C13: ParseHandshakeTime returns no error and the age
\* 86400 days + 3600 hours + 60 minutes + seconds, a unit that does not
\* occur counting zero, with or without " ago" and in either letter case;
\* moving the first clause to the end or exchanging the first two clauses
\* (and so, step by step, every order of the same clauses) gives the same
\* age.
C13_HandshakeAdditive ==
    Applied("ParseHandshakeTime") =>
        LET r == ret["ParseHandshakeTime"]
        IN  /\ ~r.err
            /\ r.age = ClauseSeconds(arg.clauses)
            /\ r.handshake = TimeUnix(now - r.age)
            /\ \A q \in Reorderings(arg.clauses) :
                  ParseHandshakeTime(HandshakeText([arg EXCEPT !.clauses = q]), now).age
                      = r.age

\* "2 hours, 1 day ago" was parsed: 26 hours.
C13_Witness ==
    /\ Applied("ParseHandshakeTime")
    /\ arg.clauses = <<[unit |-> Str_hour, mag |-> 2], [unit |-> Str_day, mag |-> 1]>>
    /\ arg.ago
    /\ ret["ParseHandshakeTime"].age = 93600


-----------------------------------------------------------------------------
(* Scrapes served concurrently: promhttp.Handler() runs one Gather, and    *)
(* so one Collect, per request in flight, in goroutines of their own: two  *)
(* requests here.  The daemon data stays what it was at the first call.    *)

InitOverlap ==
    /\ cfg \in Configs
    /\ vecs = [v \in VecNames |-> {}]
    /\ scr = [s \in {1, 2} |-> IdleScrape]
    /\ cycle = 0
    /\ alive = TRUE
    /\ now = 2000
    /\ arg = <<>>
    /\ ret = <<>>

\* The goroutine of a request calls Collect once.  The daemon data does
\* not change: the call gets the discovery answer the other goroutine's
\* call got.
CollectCallUnchanged(s) ==
    /\ scr[s].pc = "idle"
    /\ CollectCall(s)
    /\ \A t \in DOMAIN scr \ {s} :
          scr[t].cyc > 0 =>
              /\ scr'[s].discOK = scr[t].discOK
              /\ scr'[s].discOut = scr[t].discOut

\* The daemon data does not change: a dump parses to what the other
\* goroutine's call got for the interface.
ProcessInterfaceUnchanged(s) ==
    /\ ProcessInterface(s)
    /\ \A t \in DOMAIN scr \ {s} : \A e \in Elems(scr[t].parsed) :
          e.name = scr[s].interfaces[scr[s].idx]
              => scr'[s].parsed[Len(scr'[s].parsed)] = e

NextOverlap ==
    \/ \E s \in DOMAIN scr : CollectCallUnchanged(s)
    \/ \E s \in DOMAIN scr : Reset(s)
    \/ \E s \in DOMAIN scr : ProcessInterfaceUnchanged(s)
    \/ \E s \in DOMAIN scr : Emit(s)

SpecOverlap == InitOverlap /\ [][NextOverlap]_vars

\* The snapshot of the call of s holds a series for every vector and label
\* set that the call wrote for the interfaces it parsed.
CompleteSnapshot(s) ==
    \A e \in Elems(scr[s].parsed) :
        ~e.err =>
            \A w \in Elems(InterfaceWrites(e.name, e.iface, now)) :
                \E x \in scr[s].ch : x.vec = w.vec /\ x.labels = w.labels

\* C14: no step of Collect waits for another call, and a call that returns
\* without another call running at any moment of it sends the complete set
\* of series.  (That overlapping calls lose series is the state of
\* C14_Witness.)
C14_SerializedComplete ==
    /\ \A s \in DOMAIN scr :
          (scr[s].pc = "done" /\ scr[s].discOK /\ ~scr[s].overlapped)
              => CompleteSnapshot(s)
    /\ \A s \in DOMAIN scr :
          (alive /\ scr[s].pc = "idle") => ENABLED CollectCall(s)

\* Two calls overlapped on the same data, both returned, and the snapshot
\* of one misses series of an interface that exists: the Reset of the
\* other ran between its writes and its Collect(ch) calls.
C14_Witness ==
    \E s, t \in DOMAIN scr :
        /\ s # t
        /\ scr[s].pc = "done" /\ scr[t].pc = "done"
        /\ scr[s].discOK /\ scr[t].discOK
        /\ scr[s].overlapped /\ scr[t].overlapped
        /\ scr[s].discOut = scr[t].discOut
        /\ scr[s].parsed = scr[t].parsed
        /\ \E e \in Elems(scr[s].parsed) : ~e.err
        /\ ~CompleteSnapshot(s)
        /\ CompleteSnapshot(t)


-----------------------------------------------------------------------------
(* One entry per [Peer] section, under SpecConf.                           *)

\* The key a PublicKey line gives and the name a display-name comment
\* gives (empty for any other line).
KeyOfLine(l) ==
    IF l = Conf_KeyABC THEN Str_ABC ELSE IF l = Conf_KeyDEF THEN Str_DEF ELSE <<>>

NameOfLine(l) ==
    IF l = Conf_NamePhone THEN Str_Phone ELSE IF l = Conf_NameTab THEN Str_Tab ELSE <<>>

\* The entry of a [Peer] section that ended with the last key and the last
\* name given: none unless it had both.
SectionEntry(inPeer, key, name, map) ==
    IF inPeer /\ key # <<>> /\ name # <<>> THEN (key :> name) @@ map ELSE map

\* The mapping of a file in which every [Peer] section gives one entry,
\* the pair of its last key and its last name, or none.
RECURSIVE SectionMapping(_, _, _, _, _)
SectionMapping(lines, inPeer, key, name, map) ==
    IF lines = <<>> THEN SectionEntry(inPeer, key, name, map)
    ELSE LET l == Head(lines)
         IN  IF l \in {Str_PeerSection, Conf_Interface}
             THEN SectionMapping(Tail(lines), l = Str_PeerSection, <<>>, <<>>,
                                 SectionEntry(inPeer, key, name, map))
             ELSE SectionMapping(Tail(lines), inPeer,
                                 IF KeyOfLine(l) # <<>> THEN KeyOfLine(l) ELSE key,
                                 IF NameOfLine(l) # <<>> THEN NameOfLine(l) ELSE name,
                                 map)

\* C15: the mapping is the one in which each [Peer] section contributes at
\* most one entry, the pair of the last PublicKey and the last display
\* name seen in that section, a section missing either contributes none,
\* and no value is paired with a value of another section or of outside
\* the [Peer] sections.
C15_OneEntryPerSection ==
    Applied("ParseWireGuardConfigFile") =>
        ret["ParseWireGuardConfigFile"] = SectionMapping(arg, FALSE, <<>>, <<>>, <<>>)


-----------------------------------------------------------------------------
(* Static interface labels and the built-in labels, under Spec.            *)

\* C16: whatever keys the configured label map of an interface holds, the
\* `interface` label of every series written for the interface is the
\* interface name, and every peer-level series has a `peer` label, which
\* is the identity of a peer of the interface.
C16_StaticLabelsDoNotShadow ==
    \A s \in DOMAIN scr : \A x \in Snapshot(vecs) \cup scr[s].ch :
        /\ x.labels["interface"] = x.src
        /\ x.vec \notin {"PeersTotal", "InterfaceListeningPort"} =>
              /\ "peer" \in DOMAIN x.labels
              /\ \E e \in Elems(scr[s].parsed) : \E p \in Elems(e.iface.Peers) :
                    e.name = x.src /\ x.labels["peer"] = PeerIdentity(p)

-----------------------------------------------------------------------------
(* Allowed IPs of a parsed peer, under SpecDump.                           *)

\* The entries of a list that are not the empty string, in order.
NonEmptyEntries(list) == SelectSeq(list, LAMBDA e : e # <<>>)

\* C17: the allowedIPs of every parsed peer are the trimmed entries of the
\* allowed-IPs field with the empty entries dropped: the list holds no
\* empty string, so its length (the allowed-IPs count) is the number of
\* non-empty entries.
C17_AllowedIPsDropEmpty ==
    \A f \in DOMAIN ret :
        ~ret[f].err =>
            \A i \in 1..Len(ret[f].iface.Peers) :
                LET ips == ret[f].iface.Peers[i].AllowedIPs
                IN  /\ ips = NonEmptyEntries(ips)
                    /\ Len(ips) = Len(NonEmptyEntries(ips))

-----------------------------------------------------------------------------
(* Peer lines with too few fields, under SpecDump.                         *)

\* The fewest fields of a header line and of a peer line that the parser
\* stored under f in ret reads.
HeaderMinimum(f) == IF f = "ParseInterfaceData" THEN 4 ELSE 2
PeerMinimum(f) == IF f = "ParseInterfaceData" THEN 7 ELSE 1

\* The peer lines of the dump that have the fields the parser f needs.
WellFormedLines(f) ==
    SelectSeq(arg.lines, LAMBDA l : Len(Fields(l)) >= PeerMinimum(f))

\* C18: when a parser accepts the header of a dump, it returns no error
\* whatever the peer lines are, and its peers are, one for one and in
\* source order, the peer lines that have at least the parser's minimum of
\* fields: a shorter line is skipped and the lines before and after it are
\* still parsed.
C18_ShortLineSkipped ==
    \A f \in DOMAIN ret :
        Len(Fields(arg.hdr.text)) >= HeaderMinimum(f) =>
            /\ ~ret[f].err
            /\ Len(ret[f].iface.Peers) = Len(WellFormedLines(f))
            /\ \A i \in 1..Len(WellFormedLines(f)) :
                   ret[f].iface.Peers[i].PublicKey = Fields(WellFormedLines(f)[i])[1]

\* ParseInterfaceData has parsed a dump whose second peer line is cut short
\* and stands between two complete peer lines.
C18_Witness ==
    /\ arg.hdr.text = Hdr_Privileged
    /\ arg.lines = <<Line_Peer1, Line_Short, Line_Peer2>>
    /\ Applied("ParseInterfaceData")
    /\ Len(ret["ParseInterfaceData"].iface.Peers) = 2

-----------------------------------------------------------------------------
(* The handshake of a peer, from the dump to the gauges.                   *)

\* The handshake field of the dump line that describes the peer.
DumpedHandshake(peer) ==
    LET line == CHOOSE l \in {Line_Peer1, Line_Peer2} : Fields(l)[1] = peer.PublicKey
    IN  Fields(line)[5]

\* The series of a peer-level vector in ch that interface name's peer has:
\* its `peer` label is the peer.
PeerSeries(ch, v, name, peer) ==
    {x \in ch : /\ x.vec = v
                /\ x.src = name
                /\ "peer" \in DOMAIN x.labels
                /\ x.labels["peer"] = peer.PublicKey}

\* C19: a peer whose handshake field is a positive integer T has the
\* instant T seconds after the epoch as LatestHandshake, and the cycle
\* reports its latest-handshake gauge as T and its handshake age as the
\* clock of the cycle minus T; a peer whose field is the literal 0 or no
\* integer has no LatestHandshake.
C19_HandshakeReported ==
    \A s \in DOMAIN scr :
        Ended(s) =>
            \A e \in Elems(scr[s].parsed) : \A p \in Elems(e.iface.Peers) :
                ~e.err =>
                    LET T == ParseInt(DumpedHandshake(p))
                    IN  IF T.ok /\ T.val > 0
                        THEN /\ p.LatestHandshake = TimeUnix(T.val)
                             /\ \E x \in PeerSeries(scr[s].ch, "PeerLatestHandshakeSeconds",
                                                    e.name, p) : x.value = T.val
                             /\ \E x \in PeerSeries(scr[s].ch, "PeerHandshakeAgeSeconds",
                                                    e.name, p) :
                                    \E clock \in 2000..now : x.value = clock - T.val
                        ELSE p.LatestHandshake = ZeroTime

-----------------------------------------------------------------------------
(* Termination of a Collect cycle.                                         *)

\* Once Collect is called its goroutine keeps running: the Reset calls, every
\* iteration of the loop (whose subprocess returns or is killed when its
\* 5-second context expires) and the final Collect calls are each taken in
\* the end.  Nothing forces a new scrape to arrive.
SpecLive ==
    /\ Init
    /\ [][Next]_vars
    /\ \A s \in {1} : /\ WF_vars(Reset(s))
                      /\ WF_vars(ProcessInterface(s))
                      /\ WF_vars(Emit(s))

\* The loop of s has taken the discovered interfaces in order, one result
\* per interface, up to where it stands.
InDiscoveryOrder(s) ==
    /\ Len(scr[s].parsed) = scr[s].idx - 1
    /\ \A i \in 1..Len(scr[s].parsed) : scr[s].parsed[i].name = scr[s].interfaces[i]

\* No series of the cycle of s belongs to an interface whose dump failed.
FailedSkipped(s) ==
    \A e \in Elems(scr[s].parsed) :
        e.err => \A v \in VecNames :
                     \A x \in vecs[v] : ~(x.src = e.name /\ x.cyc = scr[s].cyc)

\* C20: every Collect cycle that began comes to its end having sent its
\* snapshot; on the way it takes the interfaces one at a time in discovery
\* order, and an interface whose subprocess failed or timed out is skipped
\* while the cycle goes on.
C20_CycleCompletes ==
    /\ [](\A s \in DOMAIN scr :
              scr[s].pc \in {"loop", "done", "panicked"}
                  => InDiscoveryOrder(s) /\ FailedSkipped(s))
    /\ \A s \in {1} : (scr[s].pc \in {"reset", "loop"}) ~> (scr[s].pc = "done")

====
